---- MODULE Spec2Model ----
(***************************************************************************)
(* A model of pycpio: the CPIO "newc" entry objects (cpio/data.py,        *)
(* cpio/dir.py), the archive (pycpio.py), the stream writer               *)
(* (writer/writer.py), the stream reader (reader/reader.py), the list     *)
(* writer (cpio/writer.py) and the whole-buffer reader (cpio.py).  Bytes  *)
(* are naturals 0..255, byte strings are sequences of bytes.              *)
(***************************************************************************)
EXTENDS Integers, Sequences, FiniteSets, TLC

(***************************************************************************)
(* Bounds of the model.                                                    *)
(***************************************************************************)
MaxEntries == 2
MaxNameLen == 2
MaxDataWords == 2
MaxDrop == 3
MaxCalls == 2
MaxReaders == 2

(***************************************************************************)
(* Program constants.                                                      *)
(***************************************************************************)
HeaderSize == 110
FieldWidth == 8
Align == 4
S_IFREG == 32768
S_IFDIR == 16384
S_IFLNK == 40960
S_IFCHR == 8192
S_IFIFO == 4096
S_IFBLK == 24576
S_IFSOCK == 49152

\* b"070701", the magic of the newc structure (HEADER_NEW)
Magic == <<48, 55, 48, 55, 48, 49>>
\* "TRAILER!!!"
TrailerName == <<84, 82, 65, 73, 76, 69, 82, 33, 33, 33>>
\* hashlib's None before any digest was taken
None == <<>>

(***************************************************************************)
(* Byte-string helpers.                                                    *)
(***************************************************************************)
Zeros(n) == [i \in 1..n |-> 0]

Take(s, n) == IF n >= Len(s) THEN s ELSE SubSeq(s, 1, n)

Drop(s, n) == IF n >= Len(s) THEN <<>> ELSE SubSeq(s, n + 1, Len(s))

\* pad_cpio: the number of zero bytes that bring n to a 4-byte boundary
pad_cpio(n) == (Align - (n % Align)) % Align

\* hashlib.sha256(value).hexdigest(), an injective tag of the value
sha256(value) == <<256>> \o value

\* "%x" of one nibble
HexDigit(d) == IF d < 10 THEN 48 + d ELSE 87 + d

\* the last n hex digits of v, most significant first
RECURSIVE HexDigits(_, _)
HexDigits(v, n) ==
    IF n = 0 THEN <<>> ELSE Append(HexDigits(v \div 16, n - 1), HexDigit(v % 16))

\* a numeric header field rendered as 8 lowercase hex characters
Hex8(v) == HexDigits(v, FieldWidth)

\* the value of one hex character, -1 when it is none
HexVal(c) ==
    IF c >= 48 /\ c <= 57 THEN c - 48
    ELSE IF c >= 97 /\ c <= 102 THEN c - 87
    ELSE IF c >= 65 /\ c <= 70 THEN c - 55
    ELSE -1

RECURSIVE ParseHexFrom(_, _, _)
ParseHexFrom(s, i, acc) ==
    IF i > Len(s) THEN acc
    ELSE IF HexVal(s[i]) < 0 THEN -1
    ELSE ParseHexFrom(s, i + 1, acc * 16 + HexVal(s[i]))

\* int(field, 16); -1 stands for the ValueError of an invalid field
ParseHex(s) == IF Len(s) = 0 THEN -1 ELSE ParseHexFrom(s, 1, 0)

\* a Python int that may need more than 31 bits (the mtime of a stat) is the
\* sequence of its hex digits, most significant first, without leading zeros
RECURSIVE Normalize(_)
Normalize(ds) == IF Len(ds) > 0 /\ Head(ds) = 0 THEN Normalize(Tail(ds)) ELSE ds

\* the value does not fit in 32 bits
Overflows(ds) == Len(Normalize(ds)) > FieldWidth

\* "%08x" of such an int: at least 8 hex characters, more when it is wide
HexField(ds) ==
    LET n == Normalize(ds)
        width == IF Len(n) > FieldWidth THEN Len(n) ELSE FieldWidth
    IN  [i \in 1..width |->
            IF i <= width - Len(n) THEN 48 ELSE HexDigit(n[i - (width - Len(n))])]

\* the field holds hex characters only
IsHex(s) == Len(s) > 0 /\ \A i \in 1..Len(s) : HexVal(s[i]) >= 0

\* int(field, 16) as the sequence of its hex digits
ParseField(s) == Normalize([i \in 1..Len(s) |-> HexVal(s[i])])

RECURSIVE RStripNul(_)
RStripNul(s) ==
    IF Len(s) > 0 /\ s[Len(s)] = 0 THEN RStripNul(SubSeq(s, 1, Len(s) - 1)) ELSE s

(***************************************************************************)
(* Header codec.                                                           *)
(***************************************************************************)
\* mode & S_IFMT: the type bits of a mode
TypeBits(mode) == ((mode \div S_IFIFO) % 16) * S_IFIFO

\* the type tag of a mode (CPIOModes); "" is the absent tag of the trailer
mode_type(mode) ==
    LET t == TypeBits(mode) IN
    IF t = S_IFREG THEN "File"
    ELSE IF t = S_IFDIR THEN "Dir"
    ELSE IF t = S_IFLNK THEN "Symlink"
    ELSE IF t = S_IFCHR THEN "CharDev"
    ELSE IF t = 0 THEN ""
    ELSE "Other"

\* the numeric fields after the magic, in wire order, before and after mtime
FieldsBefore(mode) == <<0, mode, 0, 0, 1>>

FieldsAfter(filesize, namesize) == <<filesize, 0, 0, 0, 0, namesize, 0>>

RECURSIVE HexAll(_)
HexAll(fs) == IF Len(fs) = 0 THEN <<>> ELSE Hex8(Head(fs)) \o HexAll(Tail(fs))

\* bytes(header): the 110 fixed bytes, the NUL-terminated name, the name padding
HeaderBytes(h) ==
    LET fixed == Magic \o HexAll(FieldsBefore(h.mode)) \o HexField(h.mtime)
                       \o HexAll(FieldsAfter(h.filesize, Len(h.name) + 1))
        named == fixed \o h.name \o <<0>>
    IN  named \o Zeros(pad_cpio(Len(named)))

\* field k (1..13) of the 110 fixed bytes
FieldAt(b, k) == SubSeq(b, 7 + (k - 1) * FieldWidth, 6 + k * FieldWidth)

\* CPIOHeader(header_data): TRUE when the constructor raises ValueError
HeaderInvalid(b) ==
    \/ Len(b) < HeaderSize
    \/ SubSeq(b, 1, 6) # Magic
    \/ \E k \in 1..13 : ~IsHex(FieldAt(b, k))

\* CPIOHeader(header_data) of 110 valid bytes; the name is added later
DecodeHeader(b) ==
    [mode |-> ParseHex(FieldAt(b, 2)),
     mtime |-> ParseField(FieldAt(b, 6)),
     filesize |-> ParseHex(FieldAt(b, 7)),
     namesize |-> ParseHex(FieldAt(b, 12)),
     name |-> <<>>]

\* header.add_data(filename_data); header.get_name()
get_name(h, filename_data) == [h EXCEPT !.name = RStripNul(filename_data)]

(***************************************************************************)
(* Entries (cpio/data.py, cpio/dir.py).  An entry is its header fields    *)
(* together with its data, its hash and the class it was built as.        *)
(***************************************************************************)
\* __setattr__ with the filesize update moved under "if value:"
SetAttrDataStale(e, value) ==
    [e EXCEPT !.data = value,
              !.hash = IF value # <<>> THEN sha256(value) ELSE @,
              !.filesize = IF value # <<>> THEN Len(value) ELSE @]

\* CPIOData.__setattr__("data", value)
SetAttrData(e, value) ==
    [e EXCEPT !.data = value,
              !.hash = IF value # <<>> THEN sha256(value) ELSE @,
              !.filesize = Len(value)]

\* CPIOData.__init__(data, header)
CPIOData_init(cls, value, h) ==
    SetAttrData([cls |-> cls, name |-> h.name, mode |-> h.mode, mtime |-> h.mtime,
                 filesize |-> h.filesize, data |-> <<>>, hash |-> None], value)

\* CPIO_Dir.__init__(data, header) without a path or a name keyword
CPIO_Dir_init(value, h) == CPIOData_init("CPIO_Dir", value, h)

\* a | b on naturals
RECURSIVE BitOr(_, _)
BitOr(a, b) ==
    IF a = 0 THEN b
    ELSE IF b = 0 THEN a
    ELSE (IF a % 2 = 1 \/ b % 2 = 1 THEN 1 ELSE 0) + 2 * BitOr(a \div 2, b \div 2)

\* CPIO_Dir.__init__ after super().__init__, with path=path and name=name: the
\* permission bits and the mtime of the path's stat are assigned to the header
CPIO_Dir_path(e, st, name) ==
    [e EXCEPT !.mode = BitOr(@, st.mode % 512), !.mtime = st.mtime, !.name = name]

\* CPIO_File.__init__ after super().__init__, with path=path: the payload is
\* the contents of the path
CPIO_File_path(e, st) == SetAttrData(e, st.contents)

\* CPIO_File(data, header): the payload is the raw contents
CPIO_File_init(value, h) == CPIOData_init("CPIO_File", value, h)

\* CPIO_Symlink(data, header): the payload is the link target
CPIO_Symlink_init(value, h) == CPIOData_init("CPIO_Symlink", value, h)

\* CPIO_CharDev(data, header): the payload is empty
CPIO_CharDev_init(value, h) == CPIOData_init("CPIO_CharDev", <<>>, h)

\* CPIOData.get_subtype raises NotImplementedError for this header
SubtypeUnknown(h) == mode_type(h.mode) = "Other"

\* get_subtype with the Symlink case returning CPIO_File
get_subtypeSymlinkAsFile(value, h) ==
    LET mode == mode_type(h.mode) IN
    IF mode = "" THEN CPIOData_init("CPIOData", value, h)
    ELSE IF mode = "File" THEN CPIO_File_init(value, h)
    ELSE IF mode = "Symlink" THEN CPIO_File_init(value, h)
    ELSE IF mode = "CharDev" THEN CPIO_CharDev_init(value, h)
    ELSE CPIO_Dir_init(value, h)

\* CPIOData.get_subtype(data, header) for a header it knows
get_subtype(value, h) ==
    LET mode == mode_type(h.mode) IN
    IF mode = "" THEN CPIOData_init("CPIOData", value, h)
    ELSE IF mode = "File" THEN CPIO_File_init(value, h)
    ELSE IF mode = "Symlink" THEN CPIO_Symlink_init(value, h)
    ELSE IF mode = "CharDev" THEN CPIO_CharDev_init(value, h)
    ELSE CPIO_Dir_init(value, h)

\* CPIOHeader(name=name, mode=mode, mtime=mtime) as create_entry builds it
NewHeader(name, mode, mtime) ==
    [name |-> name, mode |-> mode, mtime |-> mtime, filesize |-> 0, namesize |-> Len(name) + 1]

\* time() at the moment of the call
Now == <<1>>

\* CPIOData.create_entry(name, mode=mode, data=data)
create_entry(name, mode, value) == get_subtype(value, NewHeader(name, mode, Now))

\* bytes(header) with a field that does not fit in 32 bits encoded all the same
FieldOverflowNever(e) == FALSE

\* bytes(header) fails with FieldOverflowError: a numeric field does not fit in
\* 32 bits (mode, filesize and namesize stay below 2^31 here)
FieldOverflow(e) == Overflows(e.mtime)

\* CPIOData.__bytes__: bytes(self.header) + self.data
EntryBytes(e) == HeaderBytes(e) \o e.data

Names(es) == {es[i].name : i \in 1..Len(es)}

(***************************************************************************)
(* Writer (writer/writer.py).                                              *)
(***************************************************************************)
\* the entry written without its padding
OutputBytesNoPad(e) == EntryBytes(e)

\* one iteration of the loop of CPIOWriter.write: the entry and its padding
OutputBytes(e) ==
    LET entry_bytes == EntryBytes(e)
    IN  entry_bytes \o Zeros(pad_cpio(Len(entry_bytes)))

\* write iterating its argument from the last entry to the first
RECURSIVE WriteAllReversed(_)
WriteAllReversed(es) ==
    IF Len(es) = 0 THEN <<>> ELSE WriteAllReversed(Tail(es)) \o OutputBytes(Head(es))

\* what CPIOWriter.write hands to stream.write over a whole iterable
RECURSIVE WriteAll(_)
WriteAll(es) == IF Len(es) = 0 THEN <<>> ELSE OutputBytes(Head(es)) \o WriteAll(Tail(es))

\* the entries the loop of write gets through: those before the first whose
\* bytes(entry) raises
RECURSIVE Encodable(_)
Encodable(es) ==
    IF Len(es) = 0 \/ FieldOverflow(Head(es)) THEN <<>>
    ELSE <<Head(es)>> \o Encodable(Tail(es))

\* CPIOHeader(structure=self.structure, name="TRAILER!!!") of CPIOWriter.close
TrailerHeader == [name |-> TrailerName, mode |-> 0, mtime |-> <<>>, filesize |-> 0, data |-> <<>>]

\* the stream offsets at which CPIOWriter.write starts the records of es
RECURSIVE Starts(_, _)
Starts(es, base) ==
    IF Len(es) = 0 THEN <<>>
    ELSE <<base>> \o Starts(Tail(es), base + Len(OutputBytes(Head(es))))

(***************************************************************************)
(* Inputs of the operations.                                               *)
(***************************************************************************)
NameOfLen(n) == [i \in 1..n |-> 96 + i]

Payload(n) == [i \in 1..n |-> 48 + i]

NameInputs == {NameOfLen(n) : n \in 1..MaxNameLen} \cup {TrailerName}

DataInputs == {Payload(2 * k) : k \in 0..MaxDataWords}

ModeInputs == {S_IFREG + 420, S_IFDIR + 493}

\* every mode type the masks know, and the trailer's 0
AllModeInputs == ModeInputs \cup {S_IFLNK + 511, S_IFCHR + 384, S_IFIFO + 420, 0}

\* the paths append_cpio meets: a file with or without contents, a directory,
\* a FIFO
Stat(mode, mtime, contents) == [mode |-> mode, mtime |-> mtime, contents |-> contents]

FileStats == {Stat(S_IFREG + 420, <<2>>, v) : v \in {<<>>, Payload(2)}}

DirStats == {Stat(S_IFDIR + 493, <<2>>, <<>>)}

StatInputs == FileStats \cup DirStats \cup {Stat(S_IFIFO + 420, <<2>>, <<>>)}

\* st_mtime: a small one, 2^32 - 1 and 2^32
MtimeInputs == {<<2>>, [i \in 1..FieldWidth |-> 15], <<1>> \o [i \in 1..FieldWidth |-> 0]}

WideDirStats == {Stat(S_IFDIR + 493, t, <<>>) : t \in MtimeInputs}

\* the names of the paths and of the entries added by name
PathNames == {NameOfLen(n) : n \in 1..MaxNameLen}

(***************************************************************************)
(* State.                                                                  *)
(***************************************************************************)
VARIABLES
    entries,          \* PyCPIO.entries: the collection, in insertion order
    out,              \* the bytes in the writer's stream
    sinkClosed,       \* the writer's stream was closed by close(close_stream=True)
    calls,            \* the calls made on the writer, in order
    marks,            \* the offsets in out at which a record starts
    ret,              \* the value the last writer call returned
    werr,             \* the exception the last writer call raised, "" when none
    stream,           \* the bytes of the reader's stream
    pos,              \* the position of the reader's stream
    reads,            \* the parity of the number of stream.read calls made
    offset,           \* CPIOReader.offset
    pc,               \* where the read_entry generator stands
    ctx,              \* which read _read_bytes is serving
    num_bytes,        \* _read_bytes: the argument
    data,             \* _read_bytes: the local data
    read,             \* _read_bytes: the local read
    header,           \* read_header/read_entry: the header being read
    yielded,          \* the entries read_entry has yielded, in order
    stop_at_trailer,  \* the argument of read_entry
    err,              \* the exception that left read_entry, "" when none
    iterated,         \* the values CPIOReader.__next__ has returned, in order
    perr,             \* the exception the last PyCPIO operation raised, "" when none
    files,            \* cpio.py PyCPIO.files: the entries read_cpio has kept
    dicts,            \* the contents of every overrides dictionary, by identity
    overrides,        \* per reader instance: the identity of its self.overrides
    offsets,          \* per reader instance: its self.offset
    actor             \* the reader instance the last step acted through

wvars == <<out, sinkClosed, calls, marks, ret, werr>>

rvars == <<stream, pos, reads, offset, pc, ctx, num_bytes, data, read, header, yielded,
           stop_at_trailer, err>>

\* the state of the iteration protocol, of the whole-buffer reader and of the
\* reader instances side by side
xvars == <<iterated, perr, files, dicts, overrides, offsets, actor>>

vars == <<entries, out, sinkClosed, calls, marks, ret, werr, stream, pos, reads, offset, pc,
          ctx, num_bytes, data, read, header, yielded, stop_at_trailer, err,
          iterated, perr, files, dicts, overrides, offsets, actor>>

NoHeader == [name |-> <<>>, mode |-> 0, mtime |-> <<>>, filesize |-> 0, namesize |-> 0]

Init ==
    /\ entries = <<>>
    /\ out = <<>>
    /\ sinkClosed = FALSE
    /\ calls = <<>>
    /\ marks = <<>>
    /\ ret = 0
    /\ werr = ""
    /\ stream = <<>>
    /\ pos = 0
    /\ reads = 0
    /\ offset = 0
    /\ pc = "idle"
    /\ ctx = ""
    /\ num_bytes = 0
    /\ data = <<>>
    /\ read = 0
    /\ header = NoHeader
    /\ yielded = <<>>
    /\ stop_at_trailer = TRUE
    /\ err = ""
    /\ iterated = <<>>
    /\ perr = ""
    /\ files = <<>>
    /\ dicts = <<{}>>
    /\ overrides = <<>>
    /\ offsets = <<>>
    /\ actor = 0

(***************************************************************************)
(* The collection (pycpio.py).                                             *)
(***************************************************************************)
\* add_entry without the check of the name
add_entryUnchecked(es, e) == Append(es, e)

\* CPIOArchive.add_entry: a name already present is refused
add_entry(es, e) == IF e.name \in Names(es) THEN es ELSE Append(es, e)

\* PyCPIO._build_cpio_entry(name, entry_type, data)
BuildEntry(name, mode, value) ==
    /\ pc = "idle"
    /\ calls = <<>>
    /\ Len(entries) < MaxEntries
    /\ ~SubtypeUnknown(NewHeader(name, mode, Now))
    /\ entries' = add_entry(entries, create_entry(name, mode, value))
    /\ UNCHANGED <<wvars, rvars, xvars>>

\* an assignment entry.data = value to an entry of the collection
SetData(i, value) ==
    /\ pc = "idle"
    /\ calls = <<>>
    /\ i \in 1..Len(entries)
    /\ entries' = [entries EXCEPT ![i] = SetAttrData(@, value)]
    /\ UNCHANGED <<wvars, rvars, xvars>>

\* CPIOData.from_path(path, name=name), st the stat of the path and its contents
from_path(name, st) ==
    LET e == get_subtype(<<>>, NewHeader(name, TypeBits(st.mode), Now))
    IN  IF e.cls = "CPIO_Dir" THEN CPIO_Dir_path(e, st, name)
        ELSE IF e.cls = "CPIO_File" THEN CPIO_File_path(e, st)
        ELSE e

\* CPIOArchive.pop(name)
pop(es, name) == SelectSeq(es, LAMBDA e : e.name # name)

\* "for data in ...: self.entries.add_entry(data)" up to the entry that is refused
RECURSIVE AddAll(_, _)
AddAll(es, new) ==
    IF Len(new) = 0 THEN es
    ELSE LET added == add_entry(es, Head(new))
         IN  IF added = es THEN es ELSE AddAll(added, Tail(new))

\* a PyCPIO operation that builds the entries of the given headers and adds them
ArchiveAdd(hs, new) ==
    /\ pc = "idle"
    /\ calls = <<>>
    /\ IF \E i \in 1..Len(hs) : SubtypeUnknown(hs[i])
       THEN /\ perr' = "NotImplementedError"
            /\ UNCHANGED entries
       ELSE /\ Len(AddAll(entries, new)) <= MaxEntries
            /\ entries' = AddAll(entries, new)
            /\ perr' = IF Len(entries') < Len(entries) + Len(new)
                       THEN "DuplicateNameError" ELSE ""
    /\ UNCHANGED <<wvars, rvars, iterated, files, dicts, overrides, offsets, actor>>

\* PyCPIO._build_cpio_entry(name, entry_type, data), get_subtype failing or not
BuildCpioEntry(name, mode, value) ==
    ArchiveAdd(<<NewHeader(name, mode, Now)>>, <<create_entry(name, mode, value)>>)

\* PyCPIO.add_symlink(name, target)
AddSymlink(name, target) == BuildCpioEntry(name, S_IFLNK, target)

\* PyCPIO.add_chardev(name, major, minor)
AddCharDev(name) == BuildCpioEntry(name, S_IFCHR, <<>>)

\* PyCPIO.append_cpio(path, name)
AppendCpio(name, st) ==
    ArchiveAdd(<<NewHeader(name, TypeBits(st.mode), Now)>>, <<from_path(name, st)>>)

\* PyCPIO.append_recursive(path) on a directory that holds one child
AppendRecursive(name, st, child, cst) ==
    /\ mode_type(st.mode) = "Dir"
    /\ mode_type(cst.mode) = "File"
    /\ ArchiveAdd(<<NewHeader(name, TypeBits(st.mode), Now),
                    NewHeader(child, TypeBits(cst.mode), Now)>>,
                  <<from_path(name, st), from_path(child, cst)>>)

\* PyCPIO.remove_cpio(name)
RemoveCpio(name) ==
    /\ pc = "idle"
    /\ calls = <<>>
    /\ IF name \in Names(entries)
       THEN /\ entries' = pop(entries, name)
            /\ perr' = ""
       ELSE /\ perr' = "KeyError"
            /\ UNCHANGED entries
    /\ UNCHANGED <<wvars, rvars, iterated, files, dicts, overrides, offsets, actor>>

\* PyCPIO.read_from_stream(stream): CPIOReader has no process_cpio_data
ReadFromStream ==
    /\ pc = "idle"
    /\ calls = <<>>
    /\ perr' = "AttributeError"
    /\ UNCHANGED <<entries, wvars, rvars, iterated, files, dicts, overrides, offsets, actor>>

(***************************************************************************)
(* The writer's operations.                                                *)
(***************************************************************************)
\* CPIOWriter.write(es) on the stream as it stands
WriteCall(es, call) ==
    /\ pc = "idle"
    /\ Len(calls) < MaxCalls
    /\ calls' = Append(calls, call)
    /\ IF sinkClosed /\ Len(es) > 0
       THEN /\ werr' = "ValueError"
            /\ UNCHANGED <<out, marks, ret>>
       ELSE LET written == Encodable(es)
                output_bytes == WriteAll(written)
            IN  /\ out' = out \o output_bytes
                /\ marks' = marks \o Starts(written, Len(out))
                /\ IF Len(written) < Len(es)
                   THEN /\ werr' = "FieldOverflowError"
                        /\ UNCHANGED ret
                   ELSE /\ werr' = ""
                        /\ ret' = Len(output_bytes)

\* CPIOWriter.write(self.entries)
Write ==
    /\ WriteCall(entries, "write")
    /\ UNCHANGED <<entries, sinkClosed, rvars, xvars>>

\* CPIOWriter.add_entry(mode, name, data)
AddEntry(name, mode, value) ==
    /\ IF SubtypeUnknown(NewHeader(name, mode, Now))
       THEN /\ pc = "idle"
            /\ Len(calls) < MaxCalls
            /\ calls' = Append(calls, "add_entry")
            /\ werr' = "NotImplementedError"
            /\ UNCHANGED <<out, marks, ret>>
       ELSE WriteCall(<<create_entry(name, mode, value)>>, "add_entry")
    /\ UNCHANGED <<entries, sinkClosed, rvars, xvars>>

\* CPIOWriter.close(close_stream)
Close(close_stream) ==
    /\ WriteCall(<<TrailerHeader>>, "close")
    /\ sinkClosed' = (sinkClosed \/ close_stream)
    /\ UNCHANGED <<entries, rvars, xvars>>

\* PyCPIO.write_to_stream(fp): a writer on fp, write(self.entries), close()
WriteToStream ==
    /\ pc = "idle"
    /\ Len(calls) < MaxCalls
    /\ calls' = Append(calls, "write_to_stream")
    /\ IF sinkClosed
       THEN /\ werr' = "ValueError"
            /\ UNCHANGED <<out, marks>>
       ELSE LET written == Encodable(entries)
            IN  IF Len(written) < Len(entries)
                THEN /\ werr' = "FieldOverflowError"
                     /\ out' = out \o WriteAll(written)
                     /\ marks' = marks \o Starts(written, Len(out))
                ELSE /\ werr' = ""
                     /\ out' = out \o WriteAll(entries) \o WriteAll(<<TrailerHeader>>)
                     /\ marks' = marks \o Starts(Append(entries, TrailerHeader), Len(out))
    /\ UNCHANGED <<entries, sinkClosed, ret, rvars, xvars>>

\* CPIOWriter.__exit__: self.close()
Exit ==
    /\ WriteCall(<<TrailerHeader>>, "__exit__")
    /\ UNCHANGED <<entries, sinkClosed, rvars, xvars>>

\* cpio/writer.py: CPIOWriter(self.entries, output_file).write(), which opens
\* the output file anew and writes the entries of the list
ListWrite ==
    /\ pc = "idle"
    /\ calls = <<>>
    /\ calls' = <<"list_write">>
    /\ LET written == Encodable(entries)
       IN  /\ out' = WriteAll(written)
           /\ marks' = Starts(written, 0)
           /\ werr' = IF Len(written) < Len(entries) THEN "FieldOverflowError" ELSE ""
    /\ UNCHANGED <<entries, sinkClosed, ret, rvars, xvars>>

(***************************************************************************)
(* The reader's stream: the writer's bytes, as they are or damaged.        *)
(***************************************************************************)
\* the bytes with the byte at position p replaced by "X"
Damage(bytes, p) == [i \in 1..Len(bytes) |-> IF i = p THEN 88 ELSE bytes[i]]

\* the ways a stream is damaged: k bytes cut off its end, or one record's
\* magic or filesize field overwritten
Damages ==
    {[kind |-> "cut", at |-> k] : k \in 0..MaxDrop}
        \cup {[kind |-> "magic", at |-> marks[k] + 1] : k \in 1..Len(marks)}
        \cup {[kind |-> "hex", at |-> marks[k] + 6 + 7 * FieldWidth] : k \in 1..Len(marks)}

Damaged(bytes, d) ==
    IF d.kind = "cut" THEN Take(bytes, Len(bytes) - d.at)
    ELSE Damage(bytes, d.at)

(***************************************************************************)
(* The reader (reader/reader.py).                                          *)
(***************************************************************************)
\* CPIOReader(stream) and the first next() on read_entry(stop_at_trailer)
StartRead(d, stop) ==
    /\ pc = "idle"
    /\ d.kind = "cut" => d.at <= Len(out)
    /\ stream' = Damaged(out, d)
    /\ pos' = 0
    /\ reads' = 0
    /\ offset' = 0
    /\ stop_at_trailer' = stop
    /\ pc' = "entry"
    /\ UNCHANGED <<entries, wvars, xvars, ctx, num_bytes, data, read, header, yielded, err>>

\* the call self._read_bytes(n) for the read named c
CallReadBytes(c, n) ==
    /\ pc' = "read"
    /\ ctx' = c
    /\ num_bytes' = n
    /\ data' = <<>>
    /\ read' = 0

\* leaving _read_bytes and read_header towards the loop of read_entry
Leave(to) ==
    /\ pc' = to
    /\ ctx' = ""
    /\ num_bytes' = 0
    /\ data' = <<>>
    /\ read' = 0
    /\ header' = NoHeader

\* read_header returned None: "elif stop_at_trailer: break", else the loop goes on
ReturnNone == Leave(IF stop_at_trailer THEN "done" ELSE "entry")

\* read_entry: the top of "while True", read_header calls _read_bytes(110)
ReadHeader ==
    /\ pc = "entry"
    /\ CallReadBytes("header", HeaderSize)
    /\ UNCHANGED <<entries, wvars, xvars, stream, pos, reads, offset, header, yielded, stop_at_trailer, err>>

\* stream.read(n) at position p: at most n bytes, fewer at the end of the stream
StreamRead(bytes, p, n) == Take(Drop(bytes, p), n)

\* _read_bytes: one iteration of "while read < num_bytes"
ReadLoop ==
    /\ pc = "read"
    /\ read < num_bytes
    /\ LET chunk == StreamRead(stream, pos, num_bytes - read)
           got == data \o chunk
       IN  /\ pos' = pos + Len(chunk)
           /\ reads' = (reads + 1) % 2
           /\ IF Len(got) = 0
              THEN \* raise EOFError, caught by read_entry, whose loop goes on
                   Leave("entry")
              ELSE /\ data' = got
                   /\ read' = Len(got)
                   /\ UNCHANGED <<pc, ctx, num_bytes, header>>
    /\ UNCHANGED <<entries, wvars, xvars, stream, offset, yielded, stop_at_trailer, err>>

\* _read_bytes(110) returning without "self.offset += read"
HeaderReadNoOffset ==
    /\ pc = "read"
    /\ ctx = "header"
    /\ read >= num_bytes
    /\ IF HeaderInvalid(data)
       THEN ReturnNone
       ELSE /\ header' = DecodeHeader(data)
            /\ CallReadBytes("name", DecodeHeader(data).namesize)
    /\ UNCHANGED <<entries, wvars, xvars, stream, pos, reads, offset, yielded,
                   stop_at_trailer, err>>

\* _read_bytes(110) returns to read_header, which decodes the header
HeaderRead ==
    /\ pc = "read"
    /\ ctx = "header"
    /\ read >= num_bytes
    /\ offset' = offset + read
    /\ IF HeaderInvalid(data)
       THEN ReturnNone
       ELSE /\ header' = DecodeHeader(data)
            /\ CallReadBytes("name", DecodeHeader(data).namesize)
    /\ UNCHANGED <<entries, wvars, xvars, stream, pos, reads, yielded, stop_at_trailer, err>>

\* _read_bytes(namesize, pad=True) returns to read_header, which tells the trailer
NameRead ==
    /\ pc = "read"
    /\ ctx = "name"
    /\ read >= num_bytes
    /\ offset' = offset + read
    /\ IF mode_type(header.mode) = ""
       THEN ReturnNone
       ELSE /\ header' = get_name(header, data)
            /\ CallReadBytes("data", header.filesize)
    /\ UNCHANGED <<entries, wvars, xvars, stream, pos, reads, yielded, stop_at_trailer, err>>

\* _read_bytes(filesize, pad=True) returns to read_data, the entry is yielded
DataRead ==
    /\ pc = "read"
    /\ ctx = "data"
    /\ read >= num_bytes
    /\ offset' = offset + read
    /\ IF SubtypeUnknown(header)
       THEN /\ Leave("raised")
            /\ err' = "NotImplementedError"
            /\ UNCHANGED yielded
       ELSE /\ yielded' = Append(yielded, get_subtype(data, header))
            /\ Leave("entry")
            /\ UNCHANGED err
    /\ UNCHANGED <<entries, wvars, xvars, stream, pos, reads, stop_at_trailer>>

(***************************************************************************)
(* The iteration protocol of the reader (reader/reader.py).                *)
(***************************************************************************)
\* the generator object a call of a generator function returns
Generator == [cls |-> "generator"]

\* CPIOReader(stream) and iter(reader), which returns the reader itself
IterStart ==
    /\ pc = "idle"
    /\ stream' = out
    /\ pos' = 0
    /\ reads' = 0
    /\ offset' = 0
    /\ pc' = "iter"
    /\ UNCHANGED <<entries, wvars, xvars, ctx, num_bytes, data, read, header, yielded,
                   stop_at_trailer, err>>

\* CPIOReader.__next__(): its body holds a yield, so the call runs none of it
\* and returns a new generator; StopIteration is never raised
IterNext ==
    /\ pc = "iter"
    /\ Len(iterated) < MaxCalls
    /\ iterated' = Append(iterated, Generator)
    /\ UNCHANGED <<entries, wvars, rvars, perr, files, dicts, overrides, offsets, actor>>

\* the first next() on a generator __next__ returned: read_entry(False) starts
IterConsume ==
    /\ pc = "iter"
    /\ iterated # <<>>
    /\ stop_at_trailer' = FALSE
    /\ pc' = "entry"
    /\ UNCHANGED <<entries, wvars, xvars, stream, pos, reads, offset, ctx, num_bytes, data,
                   read, header, yielded, err>>

(***************************************************************************)
(* Reader instances side by side (reader/reader.py).  A dictionary is the *)
(* set of the keys it holds; dicts[1] is the {} that the def statement of  *)
(* __init__ evaluated once for "overrides={}".                             *)
(***************************************************************************)
DefaultOverrides == 1

OverrideKeys == {"mode", "uid"}

\* CPIOReader(stream), or CPIOReader(stream, {}) with a dictionary of the caller
NewReader(given) ==
    /\ Len(overrides) < MaxReaders
    /\ IF given
       THEN /\ dicts' = Append(dicts, {})
            /\ overrides' = Append(overrides, Len(dicts) + 1)
       ELSE /\ overrides' = Append(overrides, DefaultOverrides)
            /\ UNCHANGED dicts
    /\ offsets' = Append(offsets, 0)
    /\ actor' = Len(overrides) + 1
    /\ UNCHANGED <<entries, wvars, rvars, iterated, perr, files>>

\* reader.overrides[key] = value on the reader r
SetOverride(r, key) ==
    /\ r \in 1..Len(overrides)
    /\ dicts' = [dicts EXCEPT ![overrides[r]] = @ \cup {key}]
    /\ actor' = r
    /\ UNCHANGED <<entries, wvars, rvars, iterated, perr, files, overrides, offsets>>

\* a _read_bytes(n) that returns on the reader r: self.offset += n
ReaderRead(r, n) ==
    /\ r \in 1..Len(overrides)
    /\ offsets[r] + n <= MaxCalls * Align
    /\ offsets' = [offsets EXCEPT ![r] = @ + n]
    /\ actor' = r
    /\ UNCHANGED <<entries, wvars, rvars, iterated, perr, files, dicts, overrides>>

(***************************************************************************)
(* The whole-buffer reader (cpio.py).                                      *)
(***************************************************************************)
\* raw[a:b]
Slice(raw, a, b) == SubSeq(raw, a + 1, IF b < Len(raw) THEN b ELSE Len(raw))

\* CPIOEntry.get_name(): the bytes the name takes, its padding included
NameConsumed(h) == h.namesize + pad_cpio(HeaderSize + h.namesize)

\* CPIOEntry.read_contents(): the bytes the payload takes, its padding included
ContentsConsumed(h) == h.filesize + pad_cpio(h.filesize)

\* the loop of PyCPIO.read_cpio from offset, with self.files as it stands
RECURSIVE read_cpio(_, _, _)
read_cpio(raw, off, fs) ==
    IF off >= Len(raw) THEN [files |-> fs, err |-> ""]
    ELSE LET header_data == Slice(raw, off, off + HeaderSize) IN
         IF HeaderInvalid(header_data) THEN [files |-> fs, err |-> "ValueError"]
         ELSE LET h == DecodeHeader(header_data)
                  nameAt == off + HeaderSize
                  named == get_name(h, Slice(raw, nameAt, nameAt + h.namesize))
                  dataAt == nameAt + NameConsumed(h)
                  entry == [name |-> named.name, mode |-> h.mode, mtime |-> h.mtime,
                            filesize |-> h.filesize,
                            data |-> Slice(raw, dataAt, dataAt + h.filesize)]
                  next == IF h.filesize # 0 THEN dataAt + ContentsConsumed(h) ELSE dataAt
              IN  IF entry.name = TrailerName THEN [files |-> fs, err |-> ""]
                  ELSE IF Len(raw) - next < HeaderSize THEN [files |-> fs, err |-> ""]
                  ELSE read_cpio(raw, next, Append(fs, entry))

\* PyCPIO().read_cpio(file_path) on a file that holds the writer's bytes,
\* as they are or damaged
ReadCpio(d) ==
    /\ pc = "idle"
    /\ d.kind = "cut" => d.at <= Len(out)
    /\ stream' = Damaged(out, d)
    /\ files' = read_cpio(stream', 0, <<>>).files
    /\ perr' = read_cpio(stream', 0, <<>>).err
    /\ pc' = "buffered"
    /\ UNCHANGED <<entries, wvars, pos, reads, offset, ctx, num_bytes, data, read, header,
                   yielded, stop_at_trailer, err, iterated, dicts, overrides, offsets, actor>>

(***************************************************************************)
(* Specifications.                                                         *)
(***************************************************************************)
Reading == ReadHeader \/ ReadLoop \/ HeaderRead \/ NameRead \/ DataRead

Next ==
    \/ \E n \in NameInputs, m \in ModeInputs, v \in DataInputs : BuildEntry(n, m, v)
    \/ Write
    \/ Close(FALSE)
    \/ \E d \in Damages, stop \in BOOLEAN : StartRead(d, stop)
    \/ Reading

Spec == Init /\ [][Next]_vars

\* the reader is scheduled whenever it can take a step: nothing but the
\* consumer's next() drives the generator
FairSpec == Spec /\ WF_vars(Reading)

\* the writer alone: any calls on one CPIOWriter, or PyCPIO.write_to_stream on
\* a fresh stream followed by calls on a writer of the same stream
NextWriter ==
    \/ \E n \in NameInputs \ {TrailerName}, v \in DataInputs : BuildEntry(n, S_IFREG + 420, v)
    \/ BuildEntry(TrailerName, S_IFREG + 420, <<>>)
    \/ Write
    \/ \E m \in {S_IFREG + 420, S_IFIFO + 420} : AddEntry(NameOfLen(1), m, Payload(2))
    \/ \E close_stream \in BOOLEAN : Close(close_stream)
    \/ calls = <<>> /\ WriteToStream

SpecWriter == Init /\ [][NextWriter]_vars

\* one entry alone: its construction through get_subtype, then assignments
NextEntry ==
    \/ \E n \in NameInputs, m \in AllModeInputs, v \in DataInputs :
          entries = <<>> /\ BuildEntry(n, m, v)
    \/ \E k \in 0..(2 * MaxDataWords) : SetData(1, Payload(k))

SpecEntry == Init /\ [][NextEntry]_vars

\* the archive alone: any operations of one PyCPIO on its collection
NextArchive ==
    \/ \E n \in PathNames : AddSymlink(n, Payload(2))
    \/ \E n \in PathNames : AddCharDev(n)
    \/ \E n \in PathNames, st \in StatInputs : AppendCpio(n, st)
    \/ \E st \in DirStats, cst \in FileStats :
          AppendRecursive(NameOfLen(1), st, NameOfLen(2), cst)
    \/ \E m \in {0, S_IFBLK + 432, S_IFSOCK + 493} : BuildCpioEntry(NameOfLen(1), m, Payload(2))
    \/ \E n \in PathNames : RemoveCpio(n)
    \/ ReadFromStream

SpecArchive == Init /\ [][NextArchive]_vars

\* readers constructed one after the other, each used on its own
NextReaders ==
    \/ \E given \in BOOLEAN : NewReader(given)
    \/ \E r \in 1..MaxReaders, key \in OverrideKeys : SetOverride(r, key)
    \/ \E r \in 1..MaxReaders : ReaderRead(r, Align)

SpecReaders == Init /\ [][NextReaders]_vars

\* entries built from paths whose mtime is small or wide, written once
NextEncode ==
    \/ \E n \in PathNames, st \in WideDirStats \cup FileStats : AppendCpio(n, st)
    \/ calls = <<>> /\ Write

SpecEncode == Init /\ [][NextEncode]_vars

\* the whole-buffer reader over what the writer has written
NextBuffer ==
    \/ \E n \in NameInputs, m \in ModeInputs, v \in DataInputs : BuildEntry(n, m, v)
    \/ Write
    \/ Close(FALSE)
    \/ \E d \in Damages : ReadCpio(d)

SpecBuffer == Init /\ [][NextBuffer]_vars

\* a writer used inside and outside a with block, and the list writer
NextClosing ==
    \/ \E n \in NameInputs \ {TrailerName}, v \in DataInputs : BuildEntry(n, S_IFREG + 420, v)
    \/ Write
    \/ AddEntry(NameOfLen(1), S_IFREG + 420, Payload(2))
    \/ \E close_stream \in BOOLEAN : Close(close_stream)
    \/ Exit
    \/ ListWrite

SpecClosing == Init /\ [][NextClosing]_vars

\* the reader over one write(), with or without close(), of files with or
\* without a payload, as written or damaged
NextOffset ==
    \/ \E n \in PathNames, v \in {<<>>, Payload(2)} : BuildEntry(n, S_IFREG + 420, v)
    \/ calls = <<>> /\ Write
    \/ calls = <<"write">> /\ Close(FALSE)
    \/ \E d \in Damages, stop \in BOOLEAN : StartRead(d, stop)
    \/ Reading

SpecOffset == Init /\ [][NextOffset]_vars

\* a reader iterated with for, over an archive the writer has written
NextIter ==
    \/ \E n \in NameInputs, v \in DataInputs : BuildEntry(n, S_IFREG + 420, v)
    \/ Write
    \/ Close(FALSE)
    \/ IterStart
    \/ IterNext
    \/ IterConsume
    \/ Reading

SpecIter == Init /\ [][NextIter]_vars

(***************************************************************************)
(* The wire format, decoded with its alignment: the records of a byte     *)
(* string that are complete, up to the first one that is not.             *)
(***************************************************************************)
RECURSIVE RefRecords(_, _)
RefRecords(bytes, o) ==
    IF o + HeaderSize > Len(bytes) \/ HeaderInvalid(SubSeq(bytes, o + 1, o + HeaderSize))
    THEN <<>>
    ELSE LET h == DecodeHeader(SubSeq(bytes, o + 1, o + HeaderSize))
             nameEnd == o + HeaderSize + h.namesize
             dataStart == nameEnd + pad_cpio(nameEnd - o)
             dataEnd == dataStart + h.filesize
         IN  IF dataEnd > Len(bytes) THEN <<>>
             ELSE <<[name |-> RStripNul(SubSeq(bytes, o + HeaderSize + 1, nameEnd)),
                     mode |-> h.mode, mtime |-> h.mtime, filesize |-> h.filesize,
                     data |-> SubSeq(bytes, dataStart + 1, dataEnd)]>>
                  \o RefRecords(bytes, dataEnd + pad_cpio(dataEnd - dataStart))

\* the wire fields of an entry
Wire(e) ==
    [name |-> e.name, mode |-> e.mode, mtime |-> e.mtime, filesize |-> e.filesize,
     data |-> e.data]

WireAll(es) == [i \in 1..Len(es) |-> Wire(es[i])]

\* the records before the first trailer
RECURSIVE BeforeTrailer(_)
BeforeTrailer(rs) ==
    IF Len(rs) = 0 \/ Head(rs).name = TrailerName THEN <<>>
    ELSE <<Head(rs)>> \o BeforeTrailer(Tail(rs))

IsPrefix(s, t) == Len(s) <= Len(t) /\ SubSeq(t, 1, Len(s)) = s

Range(s) == {s[i] : i \in 1..Len(s)}

(***************************************************************************)
(* Properties.                                                             *)
(***************************************************************************)
\* the stream handed to the reader is the writer's output, undamaged
Undamaged == pc # "idle" /\ stream = out

\* C1: write(E) then close(), read back with read_entry(): when the read has
\* finished, the entries yielded are exactly the entries of E, in order, with
\* the same class, name, header fields, payload and hash.
C1_RoundTrip ==
    (pc = "done" /\ calls = <<"write", "close">> /\ Undamaged) => yielded = entries

\* C2: with the default stop_at_trailer, once read_entry has been started it
\* finishes: it ends (trailer or end of stream) or raises.
C2_ReaderTerminates ==
    (pc = "entry" /\ stop_at_trailer) ~> (pc \in {"done", "raised"})

\* C3: when the stream has delivered at least one byte but fewer than the
\* bytes _read_bytes was asked for, and is exhausted, the next step of the
\* reader is an error that leaves read_entry.
Short == pc = "read" /\ 0 < read /\ read < num_bytes /\ pos = Len(stream)

C3_TruncationRaises == [][Short => (pc' = "raised" /\ err' # "")]_vars

\* the entries of the reader's stream that are complete and lie before the
\* first trailer
Intact == BeforeTrailer(RefRecords(stream, 0))

\* C4: no entry the reader yields is named "TRAILER!!!"; with the default
\* stop_at_trailer and a trailer in the stream, no more entries are yielded
\* than the stream holds before its trailer; a stream that is one trailer
\* record yields nothing.
C4_TrailerNeverYielded ==
    /\ \A i \in 1..Len(yielded) : yielded[i].name # TrailerName
    /\ (pc # "idle" /\ stop_at_trailer /\ yielded # <<>>) =>
          LET records == RefRecords(stream, 0)
              before == BeforeTrailer(records)
          IN  Len(before) < Len(records) => Len(yielded) <= Len(before)
    /\ (pc # "idle" /\ stream = OutputBytes(TrailerHeader)) => yielded = <<>>

\* C5: after write(collection) and close() (PyCPIO.write_to_stream), the
\* output decodes to one record per entry of the collection, in insertion
\* order, followed by the trailer record, and nothing else.
WroteArchive == calls \in {<<"write", "close">>, <<"write_to_stream">>} /\ werr = ""

C5_WriterOrder ==
    WroteArchive =>
        /\ RefRecords(out, 0) = WireAll(entries) \o <<Wire(TrailerHeader)>>
        /\ Len(out) = Len(WriteAll(entries)) + Len(OutputBytes(TrailerHeader))

C5_Witness == WroteArchive /\ Len(entries) = MaxEntries /\ entries[1].data # <<>>

\* C6: once close() was called, a write() or add_entry() fails and adds no
\* bytes to the stream.
C6_WriteAfterCloseFails ==
    [][("close" \in Range(calls) /\ calls' # calls
          /\ calls'[Len(calls')] \in {"write", "add_entry"})
        => (werr' # "" /\ out' = out)]_vars

\* C7: header.filesize of an entry is the length of its current data, after
\* construction and after every assignment to data.
C7_SizeInvariant == \A i \in 1..Len(entries) : entries[i].filesize = Len(entries[i].data)

\* an entry whose non-empty data was replaced by empty data
C7_Witness ==
    \E i \in 1..Len(entries) : entries[i].data = <<>> /\ entries[i].hash # None

\* C8: a directory or char-device entry has empty data and filesize 0.
C8_DirDevEmpty ==
    \A i \in 1..Len(entries) :
        entries[i].cls \in {"CPIO_Dir", "CPIO_CharDev"}
            => (entries[i].data = <<>> /\ entries[i].filesize = 0)

\* C9: when the 110 bytes read for a header do not decode, the next step of
\* the reader is an error that leaves read_entry.
BadHeader == pc = "read" /\ ctx = "header" /\ read >= num_bytes /\ HeaderInvalid(data)

C9_CodecErrorPropagates == [][BadHeader => (pc' = "raised" /\ err' # "")]_vars

\* C10: reading a damaged archive yields the entries that lie completely
\* before the damage, once each and in stream order: the i-th entry yielded
\* is the i-th of them, and none of them is missing when the read has ended
\* or stands at the end of the stream.
DamagedRead == pc # "idle" /\ stop_at_trailer /\ stream # out

C10_PartialSuccess ==
    DamagedRead =>
        /\ \A i \in 1..Len(yielded) : i <= Len(Intact) => Wire(yielded[i]) = Intact[i]
        /\ (pc \in {"done", "raised"} \/ (pc = "entry" /\ pos = Len(stream)))
              => Len(yielded) >= Len(Intact)

\* C11: the values a for loop over a CPIOReader receives from __next__ are the
\* entries of the archive that lie before its trailer, in stream order and
\* each at most once: the i-th value is the i-th entry, and there are no more
\* values than entries.
C11_IterationContract ==
    pc # "idle" =>
        \A i \in 1..Len(iterated) :
            /\ i <= Len(Intact)
            /\ iterated[i] # Generator
            /\ Wire(iterated[i]) = Intact[i]

\* a step keeps the order of insertion: the entries that stay keep their
\* order, and the entries that are new come after them
OrderKept ==
    LET kept == SelectSeq(entries, LAMBDA e : e.name \in Names(entries'))
    IN  /\ IsPrefix(kept, entries')
        /\ \A i \in (Len(kept) + 1)..Len(entries') : entries'[i].name \notin Names(entries)

NamesUnique(es) == \A i, j \in 1..Len(es) : es[i].name = es[j].name => i = j

\* C12: after every operation of a PyCPIO that adds or removes entries, no two
\* entries of the collection have the same name, and the order of the
\* collection is the order of insertion.
C12_CollectionInvariant == [][NamesUnique(entries') /\ OrderKept]_vars

\* a full collection of entries added by different operations, and an
\* addition under a name already present refused
C12_Witness ==
    /\ Len(entries) = MaxEntries
    /\ entries[1].cls = "CPIO_CharDev"
    /\ entries[2].cls = "CPIO_File"
    /\ perr = "DuplicateNameError"

\* the class get_subtype is to construct for a type tag; none for the tags it
\* is to refuse
ClassOf(tag) ==
    CASE tag = "File" -> "CPIO_File"
      [] tag = "Dir" -> "CPIO_Dir"
      [] tag = "Symlink" -> "CPIO_Symlink"
      [] tag = "CharDev" -> "CPIO_CharDev"
      [] tag = "" -> "CPIOData"
      [] OTHER -> "none"

\* C13: every entry built through get_subtype has the class of the type tag
\* of its mode (File, Dir, Symlink, CharDev; the base class for the absent
\* tag), and no entry exists whose mode has another tag: for such a mode the
\* operation ends in NotImplementedError and the collection is as before.
C13_TypeDispatch ==
    /\ [](\A i \in 1..Len(entries) : entries[i].cls = ClassOf(mode_type(entries[i].mode)))
    /\ [][perr' = "NotImplementedError" => entries' = entries]_vars

\* the base class and a symlink built, then an entry of an unknown tag refused
C13_Witness ==
    /\ Len(entries) = MaxEntries
    /\ entries[1].cls = "CPIOData"
    /\ entries[2].cls = "CPIO_Symlink"
    /\ perr = "NotImplementedError"

\* what is observable through the reader r
Observable(r) == [offset |-> offsets[r], overrides |-> dicts[overrides[r]]]

\* C14: a step taken through one reader leaves what is observable through
\* every other reader as it was: its offset and the contents of its overrides.
C14_InstanceIsolation ==
    [][\A r \in 1..Len(overrides) : r # actor' => Observable(r)' = Observable(r)]_vars

\* the length of the record on the wire, from its decoded fields
WireLen(r) ==
    LET named == HeaderSize + Len(r.name) + 1
    IN  named + pad_cpio(named) + r.filesize + pad_cpio(r.filesize)

RECURSIVE WireLenAll(_)
WireLenAll(rs) == IF Len(rs) = 0 THEN 0 ELSE WireLen(Head(rs)) + WireLenAll(Tail(rs))

\* the value is below 2^32
Within32(ds) == Len(Normalize(ds)) <= FieldWidth

\* the entries before the first one that has a field of 2^32 or more
RECURSIVE UpToWide(_)
UpToWide(es) ==
    IF Len(es) = 0 \/ ~Within32(Head(es).mtime) THEN <<>>
    ELSE <<Head(es)>> \o UpToWide(Tail(es))

\* C15: after write(entries), the output is made of records with a header of
\* 110 bytes, each numeric field 8 hex characters that decode to the value of
\* the entry, for the entries whose fields are below 2^32; the write fails at
\* the first entry with a field of 2^32 or more (an mtime assigned from the
\* path's stat) and emits nothing for it.
C15_FieldWidth ==
    calls = <<"write">> =>
        LET records == RefRecords(out, 0) IN
        /\ records = WireAll(UpToWide(entries))
        /\ WireLenAll(records) = Len(out)
        /\ (werr = "FieldOverflowError") = (\E i \in 1..Len(entries) : ~Within32(entries[i].mtime))
        /\ werr \in {"", "FieldOverflowError"}

\* an mtime of 2^32 - 1 was encoded, and the write failed at an mtime of 2^32
C15_Witness ==
    /\ calls = <<"write">>
    /\ Len(entries) = 2
    /\ entries[1].mtime = [i \in 1..FieldWidth |-> 15]
    /\ Len(entries[2].mtime) = FieldWidth + 1
    /\ out # <<>>
    /\ werr = "FieldOverflowError"

\* C16: reading the writer's output, every read of a header and every read of
\* a payload starts with the stream and the reader's offset at a multiple of
\* 4: the zero bytes after a name and after a payload were skipped.
C16_ReaderAligned ==
    (Undamaged /\ pc = "read" /\ ctx \in {"header", "data"} /\ read = 0 /\ data = <<>>)
        => (pos % Align = 0 /\ offset % Align = 0)

\* the record that starts at offset m of bytes ends the bytes: its length n,
\* from its header, is followed by pad_cpio(n) zero bytes and nothing else
EndsPadded(bytes, m) ==
    LET h == DecodeHeader(SubSeq(bytes, m + 1, m + HeaderSize))
        named == HeaderSize + h.namesize
        n == named + pad_cpio(named) + h.filesize
        pad == Len(bytes) - m - n
    IN  /\ pad \in 0..(Align - 1)
        /\ (n + pad) % Align = 0
        /\ \A i \in (m + n + 1)..Len(bytes) : bytes[i] = 0

\* C17: every call on the writer leaves the stream a multiple of 4 long, with
\* every record starting at a multiple of 4 and the last record written
\* followed by 0 to 3 zero bytes up to the boundary; the value write() and
\* close() return is the number of bytes the call added to the stream.
C17_WriterAligned ==
    [][calls' # calls =>
          /\ Len(out') % Align = 0
          /\ IsPrefix(out, out')
          /\ \A k \in 1..Len(marks') : marks'[k] % Align = 0
          /\ marks' # marks => EndsPadded(out', marks'[Len(marks')])
          /\ (werr' = "" /\ calls'[Len(calls')] \in {"write", "close"})
                => ret' = Len(out') - Len(out)]_vars

\* an entry whose bytes need padding was written, and close() returned the
\* length of the padded trailer record
C17_Witness ==
    /\ calls = <<"write", "close">>
    /\ werr = ""
    /\ entries # <<>>
    /\ Len(EntryBytes(entries[1])) % Align # 0
    /\ ret = Len(out) - Len(WriteAll(entries))
    /\ ret > 0

\* the buffer is complete records, none of them the trailer, followed by
\* fewer than 110 bytes
ShortRemainder ==
    LET records == RefRecords(stream, 0)
    IN  /\ records # <<>>
        /\ BeforeTrailer(records) = records
        /\ Len(stream) - WireLenAll(records) < HeaderSize

\* C18: when read_cpio has decoded a buffer of complete records without a
\* trailer that ends in fewer than 110 bytes, it has not raised and files
\* holds every one of the records, in order, the last one included.
C18_ShortRemainderKeepsEntries ==
    (pc = "buffered" /\ ShortRemainder) => (perr = "" /\ files = RefRecords(stream, 0))

\* C19: the output of the list writer's write() ends with the trailer record,
\* for every list that holds no entry named "TRAILER!!!".
C19_ListWriterTrailer ==
    (calls = <<"list_write">> /\ werr = "" /\ TrailerName \notin Names(entries)) =>
        LET records == RefRecords(out, 0)
        IN  records # <<>> /\ records[Len(records)].name = TrailerName

\* the trailer records of a byte string
Trailers(bytes) ==
    LET records == RefRecords(bytes, 0)
    IN  {i \in 1..Len(records) : records[i] = Wire(TrailerHeader)}

\* C20: whatever calls were made on one writer, its output holds at most one
\* trailer record.
C20_OneTrailer == Cardinality(Trailers(out)) <= 1

\* C21: the hash of every entry is None or the digest of the data the entry
\* holds now, after its construction and after every assignment to its data.
C21_HashCurrent ==
    \A i \in 1..Len(entries) :
        entries[i].hash = None \/ entries[i].hash = sha256(entries[i].data)

\* C22: the reader's offset is the number of bytes it has taken from the
\* stream since construction, whenever _read_bytes is not running, and
\* offset + read is that number while it runs; the offset never decreases,
\* and a _read_bytes that raises EOFError leaves it as it was.
C22_OffsetIsConsumed ==
    /\ [](pc # "idle" => offset + read = pos)
    /\ [][pc # "idle" => offset' >= offset]_vars
    /\ [][(pc = "read" /\ read < num_bytes /\ pc' = "entry") => offset' = offset]_vars

\* an entry was yielded and the whole of a stream that does not end on a
\* 4-byte boundary was consumed
C22_Witness ==
    /\ pc = "entry"
    /\ yielded # <<>>
    /\ pos = Len(stream)
    /\ offset = Len(stream)
    /\ Len(stream) % Align # 0

====
